---- MODULE Spec2Model ----
(***************************************************************************)
(* Libp2p stream mounting (package p2p and the 'ipfs p2p' commands):       *)
(* the StreamRegistry, the ListenerRegistry, ForwardLocal with the         *)
(* local listener's accept loop, the two relay goroutines of a Stream,    *)
(* and the administrative close commands.                                  *)
(*                                                                         *)
(* Strings are sequences of tokens, so that prefixing and comparison are   *)
(* computed as the code computes them.                                     *)
(***************************************************************************)
EXTENDS Integers, Sequences, FiniteSets

\* ------------------------------------------------------------------ bounds
\* the whole program (Spec)
MaxCalls == 1           \* ForwardLocal calls (one candidate listener each)
MaxConns == 1           \* connections accepted over all listeners
MaxCloseCmds == 1       \* runs of 'p2p close'
MaxStreamCmds == 1      \* runs of 'p2p stream close'
\* the listeners and their registry (SpecListeners)
ListenersCalls == 3
ListenersConns == 1
ListenersCloseCmds == 1
\* the streams and their registry (SpecStreams)
StreamsCalls == 2
StreamsConns == 2
\* one stream and the bytes it carries (SpecRelay)
RelayCalls == 1
RelayConns == 1
RelayBytes == 2         \* bytes the client writes on the local connection

\* ------------------------------------------------------------------ inputs
P2PPrefix == "/p2p/"
IpfsPrefix == "/ipfs/"
Names == {"a"}
Addrs == {"l1", "l2"}
Peers == {"p1"}
Bytes == {"x", "y"}

NoKey == [proto |-> << >>, listen |-> "", target |-> << >>]
NoTask == 0
NoID == -1

Largest(S) == CHOOSE x \in S : \A y \in S : y <= x
LIds == 1 .. Largest({MaxCalls, ListenersCalls, StreamsCalls})
CIds == 1 .. Largest({MaxConns, ListenersConns, StreamsConns})

\* the goroutine of 'p2p stream close', as a holder of StreamRegistry.lk
StreamCmdTask == -1

VARIABLES
    Listeners,  \* ListenerRegistry.Listeners: key -> listener
    reserved,   \* ListenerRegistry's provisional reservation (a key, or NoKey)
    Streams,    \* StreamRegistry.Streams: handle -> stream
    nextID,     \* StreamRegistry.nextID
    lk,         \* holder of StreamRegistry.lk (an accept loop), or NoTask
    lst,        \* the localListener values, one per ForwardLocal call
    ncalls,     \* ForwardLocal calls made so far
    conn,       \* accepted connections and the Stream built on each
    nconns,     \* connections accepted so far
    ccmd,       \* the running 'p2p close' command
    scmd,       \* the running 'p2p stream close' command
    crashed     \* the runtime has thrown on a concurrent map access

vars == << Listeners, reserved, Streams, nextID, lk, lst, ncalls, conn, nconns,
           ccmd, scmd, crashed >>

\* ------------------------------------------------------------------ helpers
EmptyMap == [x \in {} |-> 0]
Remove(f, k) == [x \in (DOMAIN f) \ {k} |-> f[x]]
Put(f, k, v) == [x \in (DOMAIN f) \cup {k} |-> IF x = k THEN v ELSE f[x]]

HasPrefix(s, tok) == Len(s) > 0 /\ s[1] = tok

\* p2pForwardCmd.Run: proto := "/p2p/" + req.Arguments()[0]
ForwardProto(name) == << P2PPrefix >> \o << name >>

\* localListener.TargetAddress
TargetAddress(peer) == << IpfsPrefix, peer >>

\* localListener.Protocol / ListenAddress / TargetAddress, gathered as the key
getListenerKey(l) ==
    [proto |-> l.proto, listen |-> l.laddr, target |-> TargetAddress(l.peer)]

\* the (protocol, bind address, peer) arguments a forward command can pass
ForwardArgs ==
    { [proto |-> ForwardProto(n), laddr |-> a, peer |-> p] :
        n \in Names, a \in Addrs, p \in Peers }

NoListener ==
    [proto |-> << >>, laddr |-> "", peer |-> "",
     call |-> "none", sock |-> "none", acc |-> "none", cur |-> 0,
     exit |-> "none", closes |-> 0]

NoConn ==
    [l |-> 0, local |-> "none", remote |-> "none", id |-> NoID,
     a |-> "none", b |-> "none", rpeer |-> "ok", bend |-> "none",
     begun |-> FALSE, over |-> FALSE, deregs |-> 0,
     lsent |-> << >>, lq |-> << >>, rrecv |-> << >>,
     rsent |-> << >>, rq |-> << >>, lrecv |-> << >>]

IdleCloseCmd ==
    [pc |-> "idle", closeAll |-> FALSE, p |-> FALSE, l |-> FALSE, t |-> FALSE,
     given |-> << >>, proto |-> << >>, listen |-> "", target |-> << >>,
     pending |-> {}, visited |-> {}, cur |-> 0, closed |-> 0, runs |-> 0]

IdleStreamCmd ==
    [pc |-> "idle", closeAll |-> FALSE, handlerID |-> 0,
     pending |-> {}, visited |-> {}, cur |-> NoID, s |-> 0, runs |-> 0]

Init ==
    /\ Listeners = EmptyMap
    /\ reserved = NoKey
    /\ Streams = EmptyMap
    /\ nextID = 0
    /\ lk = NoTask
    /\ lst = [i \in LIds |-> NoListener]
    /\ ncalls = 0
    /\ conn = [c \in CIds |-> NoConn]
    /\ nconns = 0
    /\ ccmd = IdleCloseCmd
    /\ scmd = IdleStreamCmd
    /\ crashed = FALSE

\* ------------------------------------------------------------------ mutexes
\* a Lock() that excludes nobody
LockFreeNoExclusion == TRUE

\* r.lk.Lock() of the StreamRegistry returns once no goroutine holds r.lk
LockFree == lk = NoTask

\* ------------------------------------------------------------------ ListenerRegistry
\* lock(candidate): "dup" for a key that is registered or reserved, "wait"
\* while the single reservation is held for another key, "ok" otherwise
lock(key) ==
    IF key \in DOMAIN Listeners \/ reserved = key THEN "dup"
    ELSE IF reserved # NoKey THEN "wait"
    ELSE "ok"

\* Register(listener): insert at the listener's key
ListenersRegister(key, i) == Put(Listeners, key, i)

\* Deregister(key): remove the entry, a no-op on an absent key
ListenersDeregister(key) == Remove(Listeners, key)

\* unlock(): the reservation is released
unlock == NoKey

\* manet.Listen(bindAddr) can only succeed on an address no open socket holds
AddrFree(a) == \A j \in LIds : ~(lst[j].sock = "open" /\ lst[j].laddr = a)

\* ------------------------------------------------------------------ ForwardLocal
\* a ForwardLocal that goes on to the bind whatever lock returns
FwdLockIgnored(args, maxCalls) ==
    /\ ~crashed
    /\ ncalls < maxCalls
    /\ LET i == ncalls + 1
           l == [NoListener EXCEPT !.proto = args.proto, !.laddr = args.laddr,
                                   !.peer = args.peer]
       IN  /\ ncalls' = i
           /\ lst' = [lst EXCEPT ![i] = [l EXCEPT !.call = "bind"]]
           /\ reserved' = getListenerKey(l)
    /\ UNCHANGED << Listeners, Streams, nextID, lk, conn, nconns, ccmd, scmd, crashed >>

\* ForwardLocal up to p2p.Listeners.lock(listener)
FwdLock(args, maxCalls) ==
    /\ ~crashed
    /\ ncalls < maxCalls
    /\ LET i == ncalls + 1
           l == [NoListener EXCEPT !.proto = args.proto, !.laddr = args.laddr,
                                   !.peer = args.peer]
           r == lock(getListenerKey(l))
       IN  /\ r # "wait"
           /\ ncalls' = i
           /\ IF r = "dup"
                THEN /\ lst' = [lst EXCEPT ![i] = [l EXCEPT !.call = "dup"]]
                     /\ UNCHANGED reserved
                ELSE /\ lst' = [lst EXCEPT ![i] = [l EXCEPT !.call = "bind"]]
                     /\ reserved' = getListenerKey(l)
    /\ UNCHANGED << Listeners, Streams, nextID, lk, conn, nconns, ccmd, scmd, crashed >>

\* a ForwardLocal that releases the reservation as soon as the bind succeeds
FwdBindOkUnlocks(i) ==
    /\ ~crashed
    /\ lst[i].call = "bind"
    /\ AddrFree(lst[i].laddr)
    /\ reserved' = unlock
    /\ lst' = [lst EXCEPT ![i].call = "register", ![i].sock = "open"]
    /\ UNCHANGED << Listeners, Streams, nextID, lk, ncalls, conn, nconns,
                    ccmd, scmd, crashed >>

\* manet.Listen succeeds: listener.listener = maListener
FwdBindOk(i) ==
    /\ ~crashed
    /\ lst[i].call = "bind"
    /\ AddrFree(lst[i].laddr)
    /\ lst' = [lst EXCEPT ![i].call = "register", ![i].sock = "open"]
    /\ UNCHANGED << Listeners, reserved, Streams, nextID, lk, ncalls, conn, nconns,
                    ccmd, scmd, crashed >>

\* a failure path that returns without unlock()
AfterBindFailureNoUnlock(r) == r

\* the reservation after ForwardLocal's failed manet.Listen: unlock() is called
AfterBindFailure(r) == unlock

\* a failure path that falls through to Register and the accept loop
FwdBindFailFallsThrough(i) ==
    /\ ~crashed
    /\ lst[i].call = "bind"
    /\ Listeners' = ListenersRegister(getListenerKey(lst[i]), i)
    /\ reserved' = NoKey
    /\ lst' = [lst EXCEPT ![i].call = "binderr", ![i].acc = "accept"]
    /\ UNCHANGED << Streams, nextID, lk, ncalls, conn, nconns, ccmd, scmd, crashed >>

\* manet.Listen fails: p2p.Listeners.unlock(); return nil, err
FwdBindFail(i) ==
    /\ ~crashed
    /\ lst[i].call = "bind"
    /\ reserved' = AfterBindFailure(reserved)
    /\ lst' = [lst EXCEPT ![i].call = "binderr"]
    /\ UNCHANGED << Listeners, Streams, nextID, lk, ncalls, conn, nconns,
                    ccmd, scmd, crashed >>

\* p2p.Listeners.Register(listener); go listener.acceptConns(); return listener
FwdRegister(i) ==
    /\ ~crashed
    /\ lst[i].call = "register"
    /\ Listeners' = ListenersRegister(getListenerKey(lst[i]), i)
    /\ reserved' = NoKey
    /\ lst' = [lst EXCEPT ![i].call = "ok", ![i].acc = "accept"]
    /\ UNCHANGED << Streams, nextID, lk, ncalls, conn, nconns, ccmd, scmd, crashed >>

\* ------------------------------------------------------------------ acceptConns
\* l.listener.Accept() returns a connection
Accept(i, maxConns) ==
    /\ ~crashed
    /\ lst[i].acc = "accept"
    /\ lst[i].sock = "open"
    /\ nconns < maxConns
    /\ LET c == nconns + 1
       IN  /\ nconns' = c
           /\ conn' = [conn EXCEPT ![c] = [NoConn EXCEPT !.l = i, !.local = "open"]]
           /\ lst' = [lst EXCEPT ![i].acc = "dial", ![i].cur = c]
    /\ UNCHANGED << Listeners, reserved, Streams, nextID, lk, ncalls, ccmd, scmd, crashed >>

\* l.listener.Accept() fails on the closed socket: return
AcceptClosed(i) ==
    /\ ~crashed
    /\ lst[i].acc = "accept"
    /\ lst[i].sock = "closed"
    /\ lst' = [lst EXCEPT ![i].acc = "dead", ![i].exit = "accept"]
    /\ UNCHANGED << Listeners, reserved, Streams, nextID, lk, ncalls, conn, nconns,
                    ccmd, scmd, crashed >>

\* l.listener.Accept() fails on the open socket (an acceptor error): return
AcceptorFailure(i) ==
    /\ ~crashed
    /\ lst[i].acc = "accept"
    /\ lst[i].sock = "open"
    /\ lst' = [lst EXCEPT ![i].acc = "dead", ![i].exit = "accept"]
    /\ UNCHANGED << Listeners, reserved, Streams, nextID, lk, ncalls, conn, nconns,
                    ccmd, scmd, crashed >>

\* where acceptConns goes after a failed l.dial(): local.Close(); return
AfterDialFailure == "dead"

\* a failed dial after which the accepted connection is left open
DialFailLeavesOpen(i) ==
    /\ ~crashed
    /\ lst[i].acc = "dial"
    /\ lst' = [lst EXCEPT ![i].acc = AfterDialFailure, ![i].cur = 0,
                           ![i].exit = IF AfterDialFailure = "dead" THEN "dial" ELSE @]
    /\ UNCHANGED << Listeners, reserved, Streams, nextID, lk, ncalls, conn, nconns,
                    ccmd, scmd, crashed >>

\* l.dial() fails
DialFail(i) ==
    /\ ~crashed
    /\ lst[i].acc = "dial"
    /\ conn' = [conn EXCEPT ![lst[i].cur].local = "closed"]
    /\ lst' = [lst EXCEPT ![i].acc = AfterDialFailure, ![i].cur = 0,
                           ![i].exit = IF AfterDialFailure = "dead" THEN "dial" ELSE @]
    /\ UNCHANGED << Listeners, reserved, Streams, nextID, lk, ncalls, nconns,
                    ccmd, scmd, crashed >>

\* l.dial() succeeds and the Stream value is built
DialOk(i) ==
    /\ ~crashed
    /\ lst[i].acc = "dial"
    /\ conn' = [conn EXCEPT ![lst[i].cur].remote = "open"]
    /\ lst' = [lst EXCEPT ![i].acc = "register"]
    /\ UNCHANGED << Listeners, reserved, Streams, nextID, lk, ncalls, nconns,
                    ccmd, scmd, crashed >>

\* StreamRegistry.Register: r.lk.Lock(); streamInfo.id = r.nextID
RegisterLock(i) ==
    /\ ~crashed
    /\ lst[i].acc = "register"
    /\ LockFree
    /\ lk' = i
    /\ conn' = [conn EXCEPT ![lst[i].cur].id = nextID]
    /\ lst' = [lst EXCEPT ![i].acc = "store"]
    /\ UNCHANGED << Listeners, reserved, Streams, nextID, ncalls, nconns,
                    ccmd, scmd, crashed >>

\* StreamRegistry.Register: r.Streams[r.nextID] = streamInfo; r.nextID++; unlock
RegisterStore(i) ==
    /\ ~crashed
    /\ lst[i].acc = "store"
    /\ Streams' = Put(Streams, nextID, lst[i].cur)
    /\ nextID' = nextID + 1
    /\ lk' = NoTask
    /\ lst' = [lst EXCEPT ![i].acc = "start"]
    /\ UNCHANGED << Listeners, reserved, ncalls, conn, nconns, ccmd, scmd, crashed >>

\* stream.startStreaming(): the two relay goroutines start; next iteration
StartStreaming(i) ==
    /\ ~crashed
    /\ lst[i].acc = "start"
    /\ conn' = [conn EXCEPT ![lst[i].cur].a = "copy", ![lst[i].cur].b = "copy"]
    /\ lst' = [lst EXCEPT ![i].acc = "accept", ![i].cur = 0]
    /\ UNCHANGED << Listeners, reserved, Streams, nextID, lk, ncalls, nconns,
                    ccmd, scmd, crashed >>

\* ------------------------------------------------------------------ Stream
\* a Deregister that empties the map
DeregisterDropsAll(id) == EmptyMap

\* StreamRegistry.Deregister: delete(r.Streams, streamID)
StreamsDeregister(id) == Remove(Streams, id)

\* the entry of stream c is in the map (what a Deregister(c.id) then removes)
Registered(c) == conn[c].id \in DOMAIN Streams /\ Streams[conn[c].id] = c
Removes(c) == IF Registered(c) THEN 1 ELSE 0

\* a Close that leaves the remote stream as it is
RemoteCloseNothing(r) == r

\* s.Remote.Close(): a graceful close of an open stream, nothing on a reset one
RemoteClose(r) == IF r = "open" THEN "closed" ELSE r

\* a Reset that leaves the remote stream as it is
RemoteResetNothing(r) == r

\* s.Remote.Reset(): the stream is aborted
RemoteReset(r) == "reset"

\* how the far end of s.Remote can end a stream: a clean end or a failure
PeerEnds == {"eof", "err"}

\* io.Copy(s.Local, s.Remote) returns because the remote peer ended (nil, read
\* once everything the peer sent has been read) or failed (an error); either
\* way the goroutine goes on to s.Reset()
AEndPeer(c, e) ==
    /\ ~crashed
    /\ conn[c].a = "copy"
    /\ conn[c].remote # "reset"
    /\ conn[c].rpeer = "ok"
    /\ e = "eof" => conn[c].rq = << >>
    /\ conn' = [conn EXCEPT ![c].a = "reset1", ![c].rpeer = e, ![c].begun = TRUE]
    /\ UNCHANGED << Listeners, reserved, Streams, nextID, lk, lst, ncalls, nconns,
                    ccmd, scmd, crashed >>

\* io.Copy(s.Local, s.Remote) returns an error caused on this side: the read
\* of the reset remote stream fails, or the write of relayed data to the
\* closed local connection fails
AEndHere(c) ==
    /\ ~crashed
    /\ conn[c].a = "copy"
    /\ conn[c].remote = "reset" \/ conn[c].local = "closed"
    /\ conn' = [conn EXCEPT ![c].a = "reset1", ![c].begun = TRUE]
    /\ UNCHANGED << Listeners, reserved, Streams, nextID, lk, lst, ncalls, nconns,
                    ccmd, scmd, crashed >>

\* s.Reset() in the remote-to-local goroutine: s.Local.Close()
AReset1(c) ==
    /\ ~crashed
    /\ conn[c].a = "reset1"
    /\ conn' = [conn EXCEPT ![c].a = "reset2", ![c].local = "closed"]
    /\ UNCHANGED << Listeners, reserved, Streams, nextID, lk, lst, ncalls, nconns,
                    ccmd, scmd, crashed >>

\* s.Remote.Reset()
AReset2(c) ==
    /\ ~crashed
    /\ conn[c].a = "reset2"
    /\ conn' = [conn EXCEPT ![c].a = "reset3", ![c].remote = RemoteReset(@)]
    /\ UNCHANGED << Listeners, reserved, Streams, nextID, lk, lst, ncalls, nconns,
                    ccmd, scmd, crashed >>

\* s.Registry.Deregister(s.id)
AReset3(c) ==
    /\ ~crashed
    /\ conn[c].a = "reset3"
    /\ LockFree
    /\ Streams' = StreamsDeregister(conn[c].id)
    /\ conn' = [conn EXCEPT ![c].a = "done", ![c].over = TRUE,
                             ![c].deregs = @ + Removes(c)]
    /\ UNCHANGED << Listeners, reserved, nextID, lk, lst, ncalls, nconns, ccmd, scmd,
                    crashed >>

\* what the local-to-remote goroutine calls when io.Copy returned err == nil
OnCleanEOF == "close1"

\* io.Copy(s.Remote, s.Local) returns nil: a clean end-of-stream on s.Local,
\* read once everything the client wrote has been read
BEndEOF(c) ==
    /\ ~crashed
    /\ conn[c].b = "copy"
    /\ conn[c].local = "open"
    /\ conn[c].lq = << >>
    /\ conn' = [conn EXCEPT ![c].b = OnCleanEOF, ![c].bend = "eof", ![c].begun = TRUE]
    /\ UNCHANGED << Listeners, reserved, Streams, nextID, lk, lst, ncalls, nconns,
                    ccmd, scmd, crashed >>

\* io.Copy(s.Remote, s.Local) returns an error: the read of s.Local failed
\* (the client's connection broke)
BEndPeer(c) ==
    /\ ~crashed
    /\ conn[c].b = "copy"
    /\ conn[c].local = "open"
    /\ conn' = [conn EXCEPT ![c].b = "reset1", ![c].bend = "err", ![c].begun = TRUE]
    /\ UNCHANGED << Listeners, reserved, Streams, nextID, lk, lst, ncalls, nconns,
                    ccmd, scmd, crashed >>

\* io.Copy(s.Remote, s.Local) returns an error caused on this side: the read
\* of the closed local connection fails, or the write to the closed, reset
\* or failed remote stream fails
BEndHere(c) ==
    /\ ~crashed
    /\ conn[c].b = "copy"
    /\ \/ conn[c].local = "closed"
       \/ conn[c].remote # "open"
       \/ conn[c].rpeer = "err"
    /\ conn' = [conn EXCEPT ![c].b = "reset1", ![c].bend = "err", ![c].begun = TRUE]
    /\ UNCHANGED << Listeners, reserved, Streams, nextID, lk, lst, ncalls, nconns,
                    ccmd, scmd, crashed >>

\* s.Close() in the local-to-remote goroutine: s.Local.Close()
BClose1(c) ==
    /\ ~crashed
    /\ conn[c].b = "close1"
    /\ conn' = [conn EXCEPT ![c].b = "close2", ![c].local = "closed"]
    /\ UNCHANGED << Listeners, reserved, Streams, nextID, lk, lst, ncalls, nconns,
                    ccmd, scmd, crashed >>

\* s.Remote.Close()
BClose2(c) ==
    /\ ~crashed
    /\ conn[c].b = "close2"
    /\ conn' = [conn EXCEPT ![c].b = "close3", ![c].remote = RemoteClose(@)]
    /\ UNCHANGED << Listeners, reserved, Streams, nextID, lk, lst, ncalls, nconns,
                    ccmd, scmd, crashed >>

\* s.Registry.Deregister(s.id)
BClose3(c) ==
    /\ ~crashed
    /\ conn[c].b = "close3"
    /\ LockFree
    /\ Streams' = StreamsDeregister(conn[c].id)
    /\ conn' = [conn EXCEPT ![c].b = "done", ![c].over = TRUE,
                             ![c].deregs = @ + Removes(c)]
    /\ UNCHANGED << Listeners, reserved, nextID, lk, lst, ncalls, nconns, ccmd, scmd,
                    crashed >>

\* s.Reset() in the local-to-remote goroutine: s.Local.Close()
BReset1(c) ==
    /\ ~crashed
    /\ conn[c].b = "reset1"
    /\ conn' = [conn EXCEPT ![c].b = "reset2", ![c].local = "closed"]
    /\ UNCHANGED << Listeners, reserved, Streams, nextID, lk, lst, ncalls, nconns,
                    ccmd, scmd, crashed >>

\* s.Remote.Reset()
BReset2(c) ==
    /\ ~crashed
    /\ conn[c].b = "reset2"
    /\ conn' = [conn EXCEPT ![c].b = "reset3", ![c].remote = RemoteReset(@)]
    /\ UNCHANGED << Listeners, reserved, Streams, nextID, lk, lst, ncalls, nconns,
                    ccmd, scmd, crashed >>

\* s.Registry.Deregister(s.id)
BReset3(c) ==
    /\ ~crashed
    /\ conn[c].b = "reset3"
    /\ LockFree
    /\ Streams' = StreamsDeregister(conn[c].id)
    /\ conn' = [conn EXCEPT ![c].b = "done", ![c].over = TRUE,
                             ![c].deregs = @ + Removes(c)]
    /\ UNCHANGED << Listeners, reserved, nextID, lk, lst, ncalls, nconns, ccmd, scmd,
                    crashed >>

\* ------------------------------------------------------------------ relayed bytes
\* lsent: what the client wrote on the local connection; lq: the part of it
\* io.Copy(s.Remote, s.Local) has not read yet; rrecv: what the remote peer
\* received; rsent: what the remote peer sent; rq: the part of it
\* io.Copy(s.Local, s.Remote) has not read yet; lrecv: what the client's
\* reader received.

\* the client writes the byte x on the connection it opened to the listener
LocalWrite(c, x, maxBytes) ==
    /\ ~crashed
    /\ conn[c].local = "open"
    /\ conn[c].bend = "none"
    /\ Len(conn[c].lsent) < maxBytes
    /\ conn' = [conn EXCEPT ![c].lsent = Append(@, x), ![c].lq = Append(@, x)]
    /\ UNCHANGED << Listeners, reserved, Streams, nextID, lk, lst, ncalls, nconns,
                    ccmd, scmd, crashed >>

\* io.Copy(s.Remote, s.Local): one Read of s.Local and the Write of what was
\* read to s.Remote
CopyLocalToRemote(c) ==
    /\ ~crashed
    /\ conn[c].b = "copy"
    /\ conn[c].local = "open"
    /\ conn[c].remote = "open"
    /\ conn[c].rpeer # "err"
    /\ conn[c].lq # << >>
    /\ conn' = [conn EXCEPT ![c].rrecv = Append(@, Head(conn[c].lq)),
                             ![c].lq = Tail(@)]
    /\ UNCHANGED << Listeners, reserved, Streams, nextID, lk, lst, ncalls, nconns,
                    ccmd, scmd, crashed >>

\* the remote peer echoes the next byte it received; it can write as long as
\* it has not ended its side and the stream has not been reset
RemoteEcho(c) ==
    /\ ~crashed
    /\ conn[c].rpeer = "ok"
    /\ conn[c].remote \in {"open", "closed"}
    /\ Len(conn[c].rsent) < Len(conn[c].rrecv)
    /\ LET x == conn[c].rrecv[Len(conn[c].rsent) + 1]
       IN  conn' = [conn EXCEPT ![c].rsent = Append(@, x), ![c].rq = Append(@, x)]
    /\ UNCHANGED << Listeners, reserved, Streams, nextID, lk, lst, ncalls, nconns,
                    ccmd, scmd, crashed >>

\* io.Copy(s.Local, s.Remote): one Read of s.Remote and the Write of what was
\* read to s.Local
CopyRemoteToLocal(c) ==
    /\ ~crashed
    /\ conn[c].a = "copy"
    /\ conn[c].remote # "reset"
    /\ conn[c].local = "open"
    /\ conn[c].rq # << >>
    /\ conn' = [conn EXCEPT ![c].lrecv = Append(@, Head(conn[c].rq)),
                             ![c].rq = Tail(@)]
    /\ UNCHANGED << Listeners, reserved, Streams, nextID, lk, lst, ncalls, nconns,
                    ccmd, scmd, crashed >>

\* ------------------------------------------------------------------ p2p close
\* the option sets 'p2p close' accepts: --all alone, or some of -p, -l, -t
CloseOpts ==
    { [closeAll |-> TRUE, p |-> FALSE, l |-> FALSE, t |-> FALSE,
       proto |-> << >>, listen |-> "", target |-> << >>] }
    \cup { [closeAll |-> FALSE, p |-> TRUE, l |-> FALSE, t |-> FALSE,
            proto |-> << n >>, listen |-> "", target |-> << >>] : n \in Names }
    \cup { [closeAll |-> FALSE, p |-> FALSE, l |-> TRUE, t |-> FALSE,
            proto |-> << >>, listen |-> a, target |-> << >>] : a \in Addrs }

\* match: the closure's first statement rewrites the captured proto
MatchProto(cmd) ==
    IF cmd.p \/ ~HasPrefix(cmd.proto, P2PPrefix)
      THEN << P2PPrefix >> \o cmd.proto
      ELSE cmd.proto

\* match: the value returned for a listener with key k
Match(cmd, k) ==
    \/ /\ cmd.p => MatchProto(cmd) = k.proto
       /\ cmd.l => cmd.listen = k.listen
       /\ cmd.t => cmd.target = k.target
    \/ cmd.closeAll

\* p2pCloseCmd.Run up to the range over n.P2P.Listeners.Listeners
CCmdStart(o, maxRuns) ==
    /\ ~crashed
    /\ ccmd.pc = "idle"
    /\ ccmd.runs < maxRuns
    /\ ccmd' = [IdleCloseCmd EXCEPT
                  !.pc = "iter", !.closeAll = o.closeAll, !.p = o.p, !.l = o.l,
                  !.t = o.t, !.given = o.proto, !.proto = o.proto,
                  !.listen = o.listen,
                  !.target = o.target, !.pending = DOMAIN Listeners,
                  !.runs = ccmd.runs + 1]
    /\ UNCHANGED << Listeners, reserved, Streams, nextID, lk, lst, ncalls, conn,
                    nconns, scmd, crashed >>

\* the range yields the listener at key k; match(listener) is evaluated
CCmdNext(k) ==
    /\ ~crashed
    /\ ccmd.pc = "iter"
    /\ k \in (DOMAIN Listeners) \ ccmd.visited
    /\ IF Match(ccmd, k)
         THEN ccmd' = [ccmd EXCEPT !.proto = MatchProto(ccmd), !.pc = "close1",
                                   !.cur = Listeners[k]]
         ELSE ccmd' = [ccmd EXCEPT !.proto = MatchProto(ccmd),
                                   !.visited = @ \cup {k}]
    /\ UNCHANGED << Listeners, reserved, Streams, nextID, lk, lst, ncalls, conn,
                    nconns, scmd, crashed >>

\* a Close that leaves the socket listening
ListenerCloseKeepsSocket(sock) == sock

\* l.listener.Close(): the socket is closed, and Accept fails from then on
ListenerClose(sock) == "closed"

\* localListener.Close: l.listener.Close()
CClose1 ==
    /\ ~crashed
    /\ ccmd.pc = "close1"
    /\ lst' = [lst EXCEPT ![ccmd.cur].sock = ListenerClose(@)]
    /\ ccmd' = [ccmd EXCEPT !.pc = "close2"]
    /\ UNCHANGED << Listeners, reserved, Streams, nextID, lk, ncalls, conn,
                    nconns, scmd, crashed >>

\* a Close that only closes the socket
CloseNoDeregister(l) == Listeners

\* what localListener.Close leaves in the registry
CloseDeregister(l) == ListenersDeregister(getListenerKey(l))

\* a Close that also drops the listener's streams from the StreamRegistry
CClose2DropsStreams ==
    /\ ~crashed
    /\ ccmd.pc = "close2"
    /\ Listeners' = CloseDeregister(lst[ccmd.cur])
    /\ Streams' = [h \in { g \in DOMAIN Streams : conn[Streams[g]].l # ccmd.cur }
                      |-> Streams[h]]
    /\ lst' = [lst EXCEPT ![ccmd.cur].closes = @ + 1]
    /\ ccmd' = [ccmd EXCEPT !.pc = "iter", !.cur = 0, !.closed = @ + 1,
                            !.visited = @ \cup {getListenerKey(lst[ccmd.cur])}]
    /\ UNCHANGED << reserved, nextID, lk, ncalls, conn, nconns, scmd, crashed >>

\* localListener.Close: l.p2p.Listeners.Deregister(getListenerKey(l)); closed++
CClose2 ==
    /\ ~crashed
    /\ ccmd.pc = "close2"
    /\ Listeners' = CloseDeregister(lst[ccmd.cur])
    /\ lst' = [lst EXCEPT ![ccmd.cur].closes = @ + 1]
    /\ ccmd' = [ccmd EXCEPT !.pc = "iter", !.cur = 0, !.closed = @ + 1,
                            !.visited = @ \cup {getListenerKey(lst[ccmd.cur])}]
    /\ UNCHANGED << reserved, Streams, nextID, lk, ncalls, conn, nconns, scmd, crashed >>

\* the range is over: res.SetOutput(closed)
CCmdEnd ==
    /\ ~crashed
    /\ ccmd.pc = "iter"
    /\ (ccmd.pending \cap DOMAIN Listeners) \ ccmd.visited = {}
    /\ ccmd' = [IdleCloseCmd EXCEPT !.closed = ccmd.closed, !.runs = ccmd.runs]
    /\ UNCHANGED << Listeners, reserved, Streams, nextID, lk, lst, ncalls, conn,
                    nconns, scmd, crashed >>

\* ------------------------------------------------------------------ p2p stream close
\* p2pStreamCloseCmd.Run up to the range over n.P2P.Streams.Streams
SCmdStart(all, h, maxRuns) ==
    /\ ~crashed
    /\ scmd.pc = "idle"
    /\ scmd.runs < maxRuns
    /\ all => h = 0
    /\ scmd' = [IdleStreamCmd EXCEPT
                  !.pc = "iter", !.closeAll = all, !.handlerID = h,
                  !.pending = DOMAIN Streams, !.runs = scmd.runs + 1]
    /\ UNCHANGED << Listeners, reserved, Streams, nextID, lk, lst, ncalls, conn,
                    nconns, ccmd, crashed >>

\* the range yields (id, stream): skipped, or stream.Reset() is entered
SCmdNext(h) ==
    /\ ~crashed
    /\ scmd.pc = "iter"
    /\ h \in (DOMAIN Streams) \ scmd.visited
    /\ IF ~scmd.closeAll /\ scmd.handlerID # h
         THEN /\ scmd' = [scmd EXCEPT !.visited = @ \cup {h}]
              /\ UNCHANGED conn
         ELSE /\ scmd' = [scmd EXCEPT !.pc = "reset1", !.cur = h, !.s = Streams[h]]
              /\ conn' = [conn EXCEPT ![Streams[h]].begun = TRUE]
    /\ UNCHANGED << Listeners, reserved, Streams, nextID, lk, lst, ncalls,
                    nconns, ccmd, crashed >>

\* stream.Reset(): s.Local.Close()
SReset1 ==
    /\ ~crashed
    /\ scmd.pc = "reset1"
    /\ conn' = [conn EXCEPT ![scmd.s].local = "closed"]
    /\ scmd' = [scmd EXCEPT !.pc = "reset2"]
    /\ UNCHANGED << Listeners, reserved, Streams, nextID, lk, lst, ncalls,
                    nconns, ccmd, crashed >>

\* s.Remote.Reset()
SReset2 ==
    /\ ~crashed
    /\ scmd.pc = "reset2"
    /\ conn' = [conn EXCEPT ![scmd.s].remote = RemoteReset(@)]
    /\ scmd' = [scmd EXCEPT !.pc = "reset3"]
    /\ UNCHANGED << Listeners, reserved, Streams, nextID, lk, lst, ncalls,
                    nconns, ccmd, crashed >>

\* s.Registry.Deregister(s.id); then break unless --all
SReset3 ==
    /\ ~crashed
    /\ scmd.pc = "reset3"
    /\ LockFree
    /\ Streams' = StreamsDeregister(conn[scmd.s].id)
    /\ conn' = [conn EXCEPT ![scmd.s].over = TRUE,
                             ![scmd.s].deregs = @ + Removes(scmd.s)]
    /\ IF scmd.closeAll
         THEN scmd' = [scmd EXCEPT !.pc = "iter", !.visited = @ \cup {scmd.cur},
                                   !.cur = NoID, !.s = 0]
         ELSE scmd' = [IdleStreamCmd EXCEPT !.runs = scmd.runs]
    /\ UNCHANGED << Listeners, reserved, nextID, lk, lst, ncalls, nconns, ccmd, crashed >>

\* the range is over
SCmdEnd ==
    /\ ~crashed
    /\ scmd.pc = "iter"
    /\ (scmd.pending \cap DOMAIN Streams) \ scmd.visited = {}
    /\ scmd' = [IdleStreamCmd EXCEPT !.runs = scmd.runs]
    /\ UNCHANGED << Listeners, reserved, Streams, nextID, lk, lst, ncalls, conn,
                    nconns, ccmd, crashed >>

\* ------------------------------------------------------------------ races
\* The commands range over the registries' maps without the registries'
\* mutexes.  A write to a map by another goroutine during the range is a data
\* race: the runtime may throw ("concurrent map iteration and map write"),
\* which ends the process, or the write may go unnoticed.
ListenersRanged == ccmd.pc # "idle"
StreamsRanged == scmd.pc # "idle"

ListenersWritten == \E i \in LIds : lst[i].call = "register"
StreamsWritten ==
    \/ \E i \in LIds : lst[i].acc = "store"
    \/ \E c \in CIds : conn[c].a = "reset3" \/ conn[c].b \in {"close3", "reset3"}

Throw ==
    /\ ~crashed
    /\ \/ ListenersRanged /\ ListenersWritten
       \/ StreamsRanged /\ StreamsWritten
    /\ crashed' = TRUE
    /\ UNCHANGED << Listeners, reserved, Streams, nextID, lk, lst, ncalls, conn,
                    nconns, ccmd, scmd >>

\* ------------------------------------------------------------------ specification
Forward(maxCalls) ==
    \/ \E args \in ForwardArgs : FwdLock(args, maxCalls)
    \/ \E i \in LIds : FwdBindOk(i) \/ FwdBindFail(i) \/ FwdRegister(i)

\* the accept loop's return once its listener has been closed
AcceptClosing == \E i \in LIds : AcceptClosed(i)

AcceptConns(maxConns) ==
    \E i \in LIds :
        \/ Accept(i, maxConns) \/ AcceptorFailure(i)
        \/ DialFail(i) \/ DialOk(i)
        \/ RegisterLock(i) \/ RegisterStore(i) \/ StartStreaming(i)

RemoteToLocal ==
    \E c \in CIds :
        \/ \E e \in PeerEnds : AEndPeer(c, e)
        \/ AEndHere(c) \/ AReset1(c) \/ AReset2(c) \/ AReset3(c)

LocalToRemote ==
    \E c \in CIds :
        \/ BEndEOF(c) \/ BEndPeer(c) \/ BEndHere(c)
        \/ BClose1(c) \/ BClose2(c) \/ BClose3(c)
        \/ BReset1(c) \/ BReset2(c) \/ BReset3(c)

CloseCmd(maxRuns) ==
    \/ \E o \in CloseOpts : CCmdStart(o, maxRuns)
    \/ \E k \in DOMAIN Listeners : CCmdNext(k)
    \/ CClose1 \/ CClose2 \/ CCmdEnd

StreamCloseCmd(maxRuns) ==
    \/ \E all \in BOOLEAN, h \in 0 .. (MaxConns - 1) : SCmdStart(all, h, maxRuns)
    \/ \E h \in DOMAIN Streams : SCmdNext(h)
    \/ SReset1 \/ SReset2 \/ SReset3 \/ SCmdEnd

\* the whole program
Next ==
    \/ Forward(MaxCalls)
    \/ AcceptConns(MaxConns)
    \/ AcceptClosing
    \/ RemoteToLocal
    \/ LocalToRemote
    \/ CloseCmd(MaxCloseCmds)
    \/ StreamCloseCmd(MaxStreamCmds)
    \/ Throw

Spec == Init /\ [][Next]_vars

\* The listeners and their registry: forward and close commands and the accept
\* loops, with the relay goroutines and the peers of every stream at rest.
\* No relay step reads or writes a listener, the ListenerRegistry or a command.
NextListeners ==
    \/ Forward(ListenersCalls)
    \/ AcceptConns(ListenersConns)
    \/ AcceptClosing
    \/ CloseCmd(ListenersCloseCmds)
    \/ Throw

SpecListeners == Init /\ [][NextListeners]_vars

\* The streams and their registry: listeners that are opened and never
\* closed, their accept loops and the relay goroutines, with no command run.
NextStreams ==
    \/ Forward(StreamsCalls)
    \/ AcceptConns(StreamsConns)
    \/ RemoteToLocal
    \/ LocalToRemote

SpecStreams == Init /\ [][NextStreams]_vars

\* One stream and the bytes relayed on it: a listener, its accept loop, the
\* relay goroutines, the client that writes and the peer that echoes.
RelayedBytes(maxBytes) ==
    \E c \in CIds :
        \/ \E x \in Bytes : LocalWrite(c, x, maxBytes)
        \/ CopyLocalToRemote(c) \/ RemoteEcho(c) \/ CopyRemoteToLocal(c)

NextRelay ==
    \/ Forward(RelayCalls)
    \/ AcceptConns(RelayConns)
    \/ RemoteToLocal
    \/ LocalToRemote
    \/ RelayedBytes(RelayBytes)

SpecRelay == Init /\ [][NextRelay]_vars

\* ------------------------------------------------------------------ claims
\* the streams Register has given a handle, and those whose Register returned
Assigned == { c \in CIds : conn[c].id # NoID }
RegisterReturned(c) ==
    /\ conn[c].id # NoID
    /\ ~(lst[conn[c].l].cur = c /\ lst[conn[c].l].acc = "store")

\* C1: whatever the interleaving of the accept loops' Register calls, the
\* handles given out on the fresh registry are exactly 0 .. N-1 for the N
\* streams handled so far, no two streams share a handle, every map entry
\* holds the stream that was given that handle, and a stream whose Register
\* returned is in the map under its handle until it is deregistered.
C1_HandlesExact ==
    /\ \A c1, c2 \in Assigned : c1 # c2 => conn[c1].id # conn[c2].id
    /\ { conn[c].id : c \in Assigned } = 0 .. (Cardinality(Assigned) - 1)
    /\ \A h \in DOMAIN Streams : conn[Streams[h]].id = h
    /\ \A c \in CIds : RegisterReturned(c) /\ conn[c].deregs = 0 => Registered(c)

\* two accept loops are in Register at once: one holds r.lk with handle 0 in
\* hand, the other waits in r.lk.Lock() with its stream built
C1_Witness ==
    \E i, j \in LIds :
        /\ i # j
        /\ lst[i].acc = "store" /\ conn[lst[i].cur].id = 0
        /\ lst[j].acc = "register"

\* the listener registered at key k is the localListener i
ListedAs(i) ==
    /\ getListenerKey(lst[i]) \in DOMAIN Listeners
    /\ Listeners[getListenerKey(lst[i])] = i

\* this step is the lock(listener) call of ForwardLocal call i
LockStep(i) == lst[i].call = "none" /\ lst'[i].call # "none"

\* C2: a ForwardLocal whose key is registered fails at lock with the
\* duplicate-listener error and changes neither the registry nor the
\* reservation; a ForwardLocal whose key is neither registered nor reserved
\* passes lock; a listener whose Close() has returned is no longer listed, and
\* a listener that was registered and not closed is listed under its key.
C2_DuplicateRejected ==
    /\ [][\A i \in LIds : LockStep(i) =>
            LET k == getListenerKey(lst'[i])
            IN  /\ k \in DOMAIN Listeners =>
                      /\ lst'[i].call = "dup"
                      /\ Listeners' = Listeners
                      /\ reserved' = reserved
                /\ (k \notin DOMAIN Listeners /\ reserved = NoKey) =>
                      /\ lst'[i].call = "bind"
                      /\ reserved' = k]_vars
    /\ [](\A i \in LIds :
            /\ lst[i].closes > 0 => ~ListedAs(i)
            /\ (lst[i].call = "ok" /\ lst[i].closes = 0) => ListedAs(i))

\* three calls with one key: the first was registered and then closed, the
\* second was refused as a duplicate while the first was listed, the third
\* is registered
C2_Witness ==
    \E i, j, m \in LIds :
        /\ i < j /\ j < m
        /\ getListenerKey(lst[i]) = getListenerKey(lst[j])
        /\ getListenerKey(lst[i]) = getListenerKey(lst[m])
        /\ lst[i].closes = 1
        /\ lst[j].call = "dup"
        /\ lst[m].call = "ok" /\ ListedAs(m)

\* this step is the return of ForwardLocal call i after manet.Listen failed
BindFailStep(i) == lst[i].call = "bind" /\ lst'[i].call = "binderr"

\* C3: when the bind fails after lock passed, the step that returns the bind
\* error releases the reservation and leaves the registry as it was, with no
\* entry for the key, so that lock passes for the same key from then on; and
\* a call past lock ends in Register or in this failure, nothing else.
C3_UnlockOnBindFailure ==
    [][\A i \in LIds :
          /\ BindFailStep(i) =>
                /\ reserved' = NoKey
                /\ Listeners' = Listeners
                /\ getListenerKey(lst[i]) \notin DOMAIN Listeners'
                /\ lock(getListenerKey(lst[i]))' = "ok"
          /\ (lst[i].call = "bind" /\ lst'[i].call # "bind") =>
                lst'[i].call \in {"binderr", "register"}]_vars

\* a call failed at the bind, and a later call with the same key passed lock
C3_Witness ==
    \E i, j \in LIds :
        /\ i < j
        /\ getListenerKey(lst[i]) = getListenerKey(lst[j])
        /\ lst[i].call = "binderr"
        /\ lst[j].call \in {"bind", "register", "ok"}

\* this step belongs to ForwardLocal call i and does not end it in success
FailingCallStep(i) == lst'[i].call # lst[i].call /\ lst'[i].call \notin {"register", "ok"}

\* C9: a ForwardLocal call that ends in the duplicate or the bind error ends
\* in the step that meets the error, no step of such a call changes the set
\* of registered listeners, and its candidate listener is never listed, never
\* keeps a socket and never gets an accept loop.
C9_ErrorLeavesRegistry ==
    /\ [][\A i \in LIds : FailingCallStep(i) => Listeners' = Listeners]_vars
    /\ [](\A i \in LIds : lst[i].call \in {"dup", "binderr"} =>
            /\ ~ListedAs(i)
            /\ lst[i].sock = "none"
            /\ lst[i].acc = "none")

\* while one listener is listed, one call was refused as a duplicate and
\* another call failed at the bind
C9_Witness ==
    \E i, j, m \in LIds :
        /\ lst[i].call = "ok" /\ ListedAs(i)
        /\ lst[j].call = "dup"
        /\ lst[m].call = "binderr"

\* the dial for connection c failed
DialFailed(c) ==
    /\ conn[c].local # "none"
    /\ conn[c].remote = "none"
    /\ lst[conn[c].l].cur # c

\* C4: a failed dial closes the connection just accepted, registers no Stream
\* for it, and leaves the accept loop running: the loop never returns because
\* of a dial failure.
C4_DialFailureIsLocal ==
    \A c \in CIds : DialFailed(c) =>
        /\ conn[c].local = "closed"
        /\ conn[c].id = NoID
        /\ lst[conn[c].l].exit # "dial"

\* the listener i accepts a connection in this step
AcceptStep(i) == lst[i].acc = "accept" /\ lst'[i].acc = "dial"

\* this step registers the stream of connection c
RegisterStep(c) == ~Registered(c) /\ Registered(c)'

\* C6, as claimed: once a listener's Close() has returned the listener is not
\* listed, and no Stream of a connection of that listener is registered from
\* then on.
C6_NoStreamAfterClose ==
    /\ [](\A i \in LIds : lst[i].closes > 0 => ~ListedAs(i))
    /\ [][\A c \in CIds :
            (conn[c].l # 0 /\ lst[conn[c].l].closes > 0) => ~RegisterStep(c)]_vars

\* C6, amended: once a listener's Close() has returned the listener is not
\* listed, its socket is closed and it accepts no connection from then on; a
\* Stream registered after that is of a connection accepted before.
C6_NoAcceptAfterClose ==
    /\ [](\A i \in LIds : lst[i].closes > 0 => ~ListedAs(i) /\ lst[i].sock = "closed")
    /\ [][\A i \in LIds : lst[i].closes > 0 => ~AcceptStep(i)]_vars

\* Close() has returned for a listener whose accept loop is inside Register
\* for a connection it accepted before: the Stream is registered after Close
C6_Witness ==
    \E i \in LIds :
        /\ lst[i].closes > 0
        /\ lst[i].acc = "store"
        /\ conn[lst[i].cur].id # NoID

\* C5: when the local-to-remote copy ended in a clean end-of-stream and the
\* remote peer neither ended nor failed, the remote stream is never reset and
\* is gracefully closed once that goroutine is done; when the copy ended in
\* an error, the remote stream is reset once that goroutine is done.
C5_CloseVsReset ==
    \A c \in CIds :
        /\ (conn[c].bend = "eof" /\ conn[c].rpeer = "ok") =>
              /\ conn[c].remote # "reset"
              /\ conn[c].b = "done" => conn[c].remote = "closed"
        /\ (conn[c].bend = "err" /\ conn[c].b = "done") => conn[c].remote = "reset"

C10_MapsUnderMutex ==
    /\ StreamsRanged => lk = StreamCmdTask
    /\ ~(ListenersRanged /\ ListenersWritten)
    /\ ~crashed

\* ------------------------------------------------------------------ fairness
\* The scheduler runs every goroutine that can take a step; sync.Mutex hands
\* the lock to a goroutine that keeps asking for it.  Nothing is assumed of
\* the peers, the clients or the users of the commands.
Fairness ==
    /\ \A c \in CIds :
          /\ WF_vars(AReset1(c) \/ AReset2(c))
          /\ SF_vars(AReset3(c))
          /\ WF_vars(BClose1(c) \/ BClose2(c) \/ BReset1(c) \/ BReset2(c))
          /\ SF_vars(BClose3(c) \/ BReset3(c))
    /\ \A i \in LIds : WF_vars(RegisterStore(i) \/ StartStreaming(i))
    /\ WF_vars(SReset1 \/ SReset2)
    /\ SF_vars(SReset3)

SpecFair == Init /\ [][Next]_vars /\ Fairness

\* C8: a stream never has two entries; a stream whose relay runs on two open
\* endpoints has its entry; and once a side of the connection has closed or
\* failed (a relay goroutine has left io.Copy) the entry is eventually gone.
C8_OneEntryThenNone ==
    /\ [](\A c \in CIds :
            /\ Cardinality({ h \in DOMAIN Streams : Streams[h] = c }) <= 1
            /\ (conn[c].a # "none" /\ conn[c].local = "open" /\ conn[c].remote = "open")
                  => Registered(c))
    /\ \A c \in CIds : (conn[c].begun /\ conn[c].a # "none") ~> ~Registered(c)

\* s is an initial part of t
IsPrefix(s, t) == Len(s) <= Len(t) /\ SubSeq(t, 1, Len(s)) = s

\* C11: what the remote peer received is at every moment an initial part of
\* what the client wrote, what the client's reader received is an initial
\* part of what the peer sent, and once the relay of a stream has ended after
\* a clean end-of-stream of the client, with no failure of the peer, each side
\* has received all that the other sent: every echoed byte reached the client.
C11_ByteExactRelay ==
    \A c \in CIds :
        /\ IsPrefix(conn[c].rrecv, conn[c].lsent)
        /\ IsPrefix(conn[c].lrecv, conn[c].rsent)
        /\ (conn[c].a = "done" /\ conn[c].b = "done"
              /\ conn[c].bend = "eof" /\ conn[c].rpeer # "err") =>
                /\ conn[c].rrecv = conn[c].lsent
                /\ conn[c].lrecv = conn[c].rsent

\* the listener at key k is one the options of the running 'p2p close' name:
\* --all, or every given field equal, the protocol with forward's prefix
Wanted(k) ==
    \/ ccmd.closeAll
    \/ /\ ccmd.p => << P2PPrefix >> \o ccmd.given = k.proto
       /\ ccmd.l => ccmd.listen = k.listen
       /\ ccmd.t => ccmd.target = k.target

\* C12: each listener the range of 'p2p close' yields is closed if the options
\* name it and skipped if they do not, whatever the number of listeners and
\* the order of the range; and the count is the number of listeners closed.
C12_ClosesExactlyMatching ==
    /\ [][ccmd.pc = "iter" =>
            \A k \in DOMAIN Listeners :
                /\ (k \in ccmd'.visited /\ k \notin ccmd.visited) => ~Wanted(k)
                /\ (ccmd'.pc = "close1" /\ ccmd'.cur = Listeners[k]) => Wanted(k)]_vars
    /\ [](ccmd.pc \in {"idle", "iter"} =>
            ccmd.closed = Cardinality({ i \in LIds : lst[i].closes > 0 }))

\* this step is a Deregister(s.id) called for the stream of connection c
DeregisterStep(c) ==
    \/ conn[c].a = "reset3" /\ conn'[c].a = "done"
    \/ conn[c].b \in {"close3", "reset3"} /\ conn'[c].b = "done"
    \/ scmd.pc = "reset3" /\ scmd.s = c /\ scmd'.pc # "reset3"

\* C13: Deregister of a handle that is not in the map, never registered or
\* already removed, leaves the map as it is; a Deregister called for a stream
\* whose entry is gone changes neither the map nor nextID and returns; and any
\* Deregister removes at most its own handle and leaves nextID alone.
C13_DeregisterIdempotent ==
    /\ [](\A h \in 0 .. StreamsConns :
            h \notin DOMAIN Streams => StreamsDeregister(h) = Streams)
    /\ [][\A c \in CIds : DeregisterStep(c) =>
            /\ nextID' = nextID
            /\ DOMAIN Streams' = (DOMAIN Streams) \ {conn[c].id}
            /\ \A h \in DOMAIN Streams' : Streams'[h] = Streams[h]
            /\ ~Registered(c) => Streams' = Streams]_vars

\* both relay goroutines have called Deregister for one stream, which removed
\* its entry once, while another stream is registered
C13_Witness ==
    \E c, d \in CIds :
        /\ c # d
        /\ conn[c].a = "done" /\ conn[c].b = "done" /\ conn[c].deregs = 1
        /\ Registered(d)

\* this step is a step of Close() called on the listener i
CloseStep(i) ==
    ccmd.pc \in {"close1", "close2"} /\ ccmd.cur = i /\ ccmd'.pc # ccmd.pc

\* this step is a step of a Close or Reset called on the stream of connection c
EndingStep(c) ==
    \/ conn[c].a \in {"reset1", "reset2", "reset3"} /\ conn'[c].a # conn[c].a
    \/ conn[c].b \in {"close1", "close2", "close3", "reset1", "reset2", "reset3"}
          /\ conn'[c].b # conn[c].b
    \/ scmd.pc \in {"reset1", "reset2", "reset3"} /\ scmd.s = c /\ scmd'.pc # scmd.pc

\* C14: no step of a listener's Close() changes the StreamRegistry or a stream
\* of that listener, endpoints and relay goroutines included; and the entry
\* and the endpoints of a registered stream change only in a step of a Close
\* or Reset called on that stream.
C14_CloseLeavesStreams ==
    /\ [][\A i \in LIds : CloseStep(i) =>
            /\ Streams' = Streams
            /\ nextID' = nextID
            /\ \A c \in CIds : conn[c].l = i => conn'[c] = conn[c]]_vars
    /\ [][\A c \in CIds :
            (/\ conn[c].id # NoID
             /\ \/ Registered(c) /\ ~Registered(c)'
                \/ conn'[c].local # conn[c].local
                \/ conn'[c].remote # conn[c].remote) => EndingStep(c)]_vars

\* a listener's Close() has returned and a stream it created is registered
\* and relaying on two open endpoints
C14_Witness ==
    \E c \in CIds :
        /\ conn[c].l # 0
        /\ lst[conn[c].l].closes > 0
        /\ Registered(c)
        /\ conn[c].a = "copy" /\ conn[c].b = "copy"
        /\ conn[c].local = "open" /\ conn[c].remote = "open"

\* the call i is between its lock and its Register or unlock
InWindow(i) == lst[i].call \in {"bind", "register"}

\* the call i is in that window, or its listener is registered and not closed
Live(i) == InWindow(i) \/ (lst[i].call = "ok" /\ lst[i].closes = 0)

\* C15: of two ForwardLocal calls with one key, never both are past lock and
\* before their Register or unlock, never one is there while the listener of
\* the other is registered, never both listeners are registered, and never
\* both hold a bound socket.
C15_OneCallPerKey ==
    \A i, j \in LIds :
        (i # j /\ lst[i].call # "none" /\ lst[j].call # "none"
           /\ getListenerKey(lst[i]) = getListenerKey(lst[j])) =>
            /\ ~(Live(i) /\ Live(j))
            /\ ~(lst[i].sock = "open" /\ lst[j].sock = "open")

\* a call is past lock and has not registered yet, and a later call with the
\* same key has been refused meanwhile
C15_Witness ==
    \E i, j \in LIds :
        /\ i < j
        /\ getListenerKey(lst[i]) = getListenerKey(lst[j])
        /\ InWindow(i)
        /\ lst[j].call = "dup"

\* ForwardLocal runs from lock to its return without waiting for anything but
\* the bind, which succeeds or fails
FairnessForward ==
    \A i \in LIds : WF_vars(FwdBindOk(i) \/ FwdBindFail(i) \/ FwdRegister(i))

\* a 'p2p close' that was started runs to its end
FairnessCloseCmd ==
    /\ WF_vars(\E k \in DOMAIN Listeners : CCmdNext(k))
    /\ WF_vars(CClose1 \/ CClose2 \/ CCmdEnd)

SpecListenersFair ==
    Init /\ [][NextListeners]_vars /\ FairnessForward /\ FairnessCloseCmd

\* the calls that hold the reservation
Holders == { i \in LIds : InWindow(i) }

\* C16: the reservation is held exactly while one ForwardLocal call is between
\* its lock and its Register or unlock, for the key of that call; the call
\* leaves that window by Register, which lists its listener, or by unlock,
\* which leaves the registry as it was, and either frees the reservation; a
\* call that has returned holds nothing, so a registered listener does not
\* keep the reservation; and in a running process a held reservation is
\* eventually free, so that lock for another key does not wait for ever.
C16_ReservationWindow ==
    /\ [](/\ Cardinality(Holders) <= 1
          /\ reserved = NoKey <=> Holders = {}
          /\ \A i \in Holders : reserved = getListenerKey(lst[i]))
    /\ [][\A i \in LIds : (InWindow(i) /\ ~InWindow(i)') =>
            /\ reserved' = NoKey
            /\ \/ lst'[i].call = "ok" /\ ListedAs(i)'
               \/ lst'[i].call = "binderr" /\ Listeners' = Listeners]_vars
    /\ (reserved # NoKey) ~> (reserved = NoKey \/ crashed)

\* one call has returned with its listener registered, and a later call for
\* another key holds the reservation
C16_Witness ==
    \E i, j \in LIds :
        /\ getListenerKey(lst[i]) # getListenerKey(lst[j])
        /\ lst[i].call = "ok" /\ ListedAs(i)
        /\ InWindow(j)
        /\ reserved = getListenerKey(lst[j])

\* C17: when the remote-to-local copy returns, on a clean end-of-stream of
\* the remote side as on an error, the goroutine enters Reset and nothing
\* else; Reset closes the local endpoint, then aborts the remote endpoint,
\* then deregisters the stream, whatever the local-to-remote goroutine is
\* doing; once it has returned the local endpoint is closed, the remote
\* endpoint is reset and the stream has no entry.
C17_RemoteEndAlwaysResets ==
    /\ [][\A c \in CIds :
            /\ (conn[c].a = "copy" /\ conn'[c].a # "copy") => conn'[c].a = "reset1"
            /\ (conn[c].a = "reset1" /\ conn'[c].a # "reset1") =>
                  conn'[c].a = "reset2" /\ conn'[c].local = "closed"
            /\ (conn[c].a = "reset2" /\ conn'[c].a # "reset2") =>
                  conn'[c].a = "reset3" /\ conn'[c].remote = "reset"
            /\ (conn[c].a = "reset3" /\ conn'[c].a # "reset3") =>
                  conn'[c].a = "done" /\ ~Registered(c)']_vars
    /\ [](\A c \in CIds : conn[c].a = "done" =>
            /\ conn[c].local = "closed"
            /\ conn[c].remote = "reset"
            /\ ~Registered(c))

\* the remote side ended cleanly, Reset has been performed, and the
\* local-to-remote copy has not returned yet
C17_Witness ==
    \E c \in CIds :
        /\ conn[c].rpeer = "eof"
        /\ conn[c].a = "done"
        /\ conn[c].b = "copy"

\* the accept loop that accepted c is still in the iteration for c, before
\* Register has returned: dialing, or dialed and in Register
InAccept(c) ==
    /\ lst[conn[c].l].cur = c
    /\ lst[conn[c].l].acc \in {"dial", "register", "store"}

\* C18: an accept loop enters Register only with the accepted connection and
\* the dialed remote stream both open; a relay goroutine exists only for a
\* stream whose Register has returned; no connection has two entries; and an
\* accepted connection that is open is in the hands of its accept loop, being
\* dialed or on its way through Register, or is the stream of one entry.
C18_RegisteredBeforeRelay ==
    \A c \in CIds :
        /\ (conn[c].l # 0 /\ lst[conn[c].l].cur = c
              /\ lst[conn[c].l].acc \in {"register", "store"}) =>
                conn[c].local = "open" /\ conn[c].remote = "open"
        /\ conn[c].id # NoID => conn[c].remote # "none"
        /\ conn[c].a # "none" =>
              /\ conn[c].b # "none"
              /\ conn[c].id # NoID /\ conn[c].id < nextID
              /\ ~InAccept(c)
        /\ Cardinality({ h \in DOMAIN Streams : Streams[h] = c }) <= 1
        /\ conn[c].local = "open" => InAccept(c) \/ Registered(c)

\* Register has returned for a stream whose relay goroutines have not been
\* started yet
C18_Witness ==
    \E i \in LIds :
        /\ lst[i].acc = "start"
        /\ Registered(lst[i].cur)
        /\ conn[lst[i].cur].a = "none"
        /\ conn[lst[i].cur].local = "open" /\ conn[lst[i].cur].remote = "open"

\* A Read blocked on an endpoint this side has closed or reset returns: the
\* read of the reset s.Remote in the remote-to-local copy, the read of the
\* closed s.Local in the local-to-remote copy.  A read of s.Remote after
\* s.Remote.Close(), which closes the stream for writing only, returns when
\* the peer sends, ends or fails, and nothing is assumed of the peer.
FairnessUnblock ==
    \A c \in CIds :
        /\ WF_vars(AEndHere(c) /\ conn[c].remote = "reset")
        /\ WF_vars(BEndHere(c) /\ conn[c].local = "closed")

SpecFairRelay == Init /\ [][Next]_vars /\ Fairness /\ FairnessUnblock

\* C19: once a Close or a Reset called on a stream has returned and the relay
\* goroutines of the stream have been started, both goroutines eventually
\* return, unless the process dies first.
C19_CopyTasksTerminate ==
    \A c \in CIds :
        (conn[c].over /\ conn[c].a # "none")
            ~> ((conn[c].a = "done" /\ conn[c].b = "done") \/ crashed)

\* C20: a registered listener whose accept loop has returned eventually
\* leaves the ListenerRegistry, unless the process dies first.
C20_DeadListenerLeaves ==
    \A i \in LIds :
        (lst[i].acc = "dead" /\ ListedAs(i)) ~> (~ListedAs(i) \/ crashed)

====
